---- MODULE Spec2Model ----
(***************************************************************************)
(* rankfit: segment-level ranking quality metrics.                         *)
(*                                                                         *)
(* Two specifications are given.                                           *)
(*   Spec        an analyzer RankFitAnalyzer(n_bins) whose calculate_metrics *)
(*               is called with score and outcome arrays.                  *)
(*   SpecScorer  the scoring steps (violation scan, calculate_rankfit_v,   *)
(*               calculate_rankfit_t) applied to an event-rate array.      *)
(*                                                                         *)
(* Arithmetic is exact.  Scores are integers.  An event rate is an integer *)
(* number of units: 1/Unit in Spec (Unit is a common multiple of every     *)
(* possible bin count), 1/RateDen in SpecScorer.  Quantile edges are kept  *)
(* multiplied by the number of quantiles so that they stay integers.       *)
(* rankfit_v is a fraction [num, den]; rankfit_t is kept in the symbolic   *)
(* form (tnum / sqrt(tden2) + add) / div, or is NaN.  Rounding of IEEE     *)
(* doubles is not modelled: equalities are those of the exact values.      *)
(*                                                                         *)
(* pandas (qcut, cut, groupby), numpy and scipy.stats.kendalltau are       *)
(* modelled by what they compute for the arguments the code passes.        *)
(***************************************************************************)
EXTENDS Integers, Sequences, FiniteSets, TLC

\* ------------------------------------------------------------------ bounds
MaxLen == 3
MaxScore == 2
MaxBins == 3
\* n_bins ranges over -MaxNegBins..MaxBins
MaxNegBins == 2
MaxK == 4
RateDen == 10

\* --------------------------------------------------------------- helpers
RECURSIVE SumSeq(_)
SumSeq(s) ==
    IF s = <<>> THEN 0 ELSE s[1] + SumSeq(Tail(s))

Abs(a) ==
    IF a < 0 THEN -a ELSE a

MaxOf(S) ==
    CHOOSE m \in S : \A o \in S : o <= m

MinOf(S) ==
    CHOOSE m \in S : \A o \in S : m <= o

RECURSIVE Gcd(_, _)
Gcd(a, b) ==
    IF b = 0 THEN a ELSE Gcd(b, a % b)

RECURSIVE LcmUpTo(_)
LcmUpTo(n) ==
    IF n <= 1 THEN 1 ELSE LET l == LcmUpTo(n - 1) IN (l * n) \div Gcd(l, n)

\* denominator of the means computed by groupby(...).agg(mean)
Unit ==
    LcmUpTo(MaxLen)

SeqsFromTo(S, lo, hi) ==
    UNION {[1..m -> S] : m \in lo..hi}

\* the elements of the set S of integers in ascending order
RECURSIVE Ascending(_)
Ascending(S) ==
    IF S = {} THEN <<>> ELSE LET m == MinOf(S) IN <<m>> \o Ascending(S \ {m})

\* ------------------------------------------------------------ pandas.qcut
\* missing value of the bin column (labels=False yields floats with NaN)
NaN == -1

\* factor by which scores and quantile edges are multiplied
QScale(q) ==
    IF q < 1 THEN 1 ELSE q

\* Series.quantile(i/q), linear interpolation, times QScale(q)
Quantile(sorted, i, q) ==
    LET pos == i * (Len(sorted) - 1)
        j == pos \div QScale(q)
        f == pos % QScale(q)
    IN  IF f = 0 THEN sorted[j + 1] * QScale(q)
        ELSE sorted[j + 1] * QScale(q) + (sorted[j + 2] - sorted[j + 1]) * f

\* algos.unique: first occurrences, order kept
RECURSIVE Unique(_)
Unique(s) ==
    IF s = <<>> THEN <<>>
    ELSE LET r == Unique(SubSeq(s, 1, Len(s) - 1))
             x == s[Len(s)]
         IN  IF \E k \in 1..Len(r) : r[k] = x THEN r ELSE Append(r, x)

\* duplicates='drop': duplicate edges are dropped unless there are two edges
DropDuplicates(bins) ==
    IF Len(Unique(bins)) < Len(bins) /\ Len(bins) # 2 THEN Unique(bins) ELSE bins

\* _bins_to_cuts(right=True, include_lowest=True, labels=False) for one value
BinsToCuts(x, bins) ==
    LET left == Cardinality({k \in 1..Len(bins) : bins[k] < x})
        ids == IF x = bins[1] THEN 1 ELSE left
    IN  IF ids = Len(bins) \/ ids = 0 THEN NaN ELSE ids - 1

\* np.linspace(0, 1, q + 1) rejects a negative number of samples
QcutValueError(q) ==
    q + 1 < 0

\* with no quantile there is no edge, and bins[0] is out of range
QcutIndexError(q) ==
    q + 1 = 0

QcutBins(scores, q) ==
    LET sorted == SortSeq(scores, LAMBDA a, b : a < b)
    IN  DropDuplicates([i \in 1..(q + 1) |-> Quantile(sorted, i - 1, q)])

\* pd.qcut(df['score'], q, labels=False, duplicates='drop')
Qcut(scores, q) ==
    [e \in 1..Len(scores) |-> BinsToCuts(scores[e] * QScale(q), QcutBins(scores, q))]

\* ------------------------------------------------------------- pandas.cut
\* _nbins_to_bins rejects nbins < 1
CutValueError(nbins) ==
    nbins < 1

\* equal-width edges of [min, max], times 1000 * nbins
CutBins(scores, nbins) ==
    LET S == {scores[e] : e \in 1..Len(scores)}
        mn == MinOf(S)
        mx == MaxOf(S)
        lo == 1000 * mn - (IF mn # 0 THEN Abs(mn) ELSE 1)
        hi == 1000 * mx + (IF mx # 0 THEN Abs(mx) ELSE 1)
    IN  IF mn = mx
        THEN [i \in 1..(nbins + 1) |-> lo * nbins + (i - 1) * (hi - lo)]
        ELSE [i \in 1..(nbins + 1) |->
                 1000 * (mn * nbins + (i - 1) * (mx - mn))
                 - (IF i = 1 THEN (mx - mn) * nbins ELSE 0)]

\* pd.cut(df['score'], bins=nbins, labels=False, include_lowest=True)
Cut(scores, nbins) ==
    [e \in 1..Len(scores) |-> BinsToCuts(scores[e] * 1000 * nbins, CutBins(scores, nbins))]

\* ------------------------------------------------------------ the scorer
\* the loop that scans adjacent pairs of event rates (0-based indices)
RECURSIVE FindViolationsGeqFrom(_, _, _)
FindViolationsGeqFrom(event_rates, i, acc) ==
    IF i >= Len(event_rates) - 1 THEN acc
    ELSE FindViolationsGeqFrom(event_rates, i + 1,
             IF event_rates[i + 2] >= event_rates[i + 1]
             THEN Append(acc, <<i, i + 1, event_rates[i + 1], event_rates[i + 2],
                                event_rates[i + 2] - event_rates[i + 1]>>)
             ELSE acc)

FindViolationsGeq(event_rates) ==
    FindViolationsGeqFrom(event_rates, 0, <<>>)

RECURSIVE FindViolationsFrom(_, _, _)
FindViolationsFrom(event_rates, i, acc) ==
    IF i >= Len(event_rates) - 1 THEN acc
    ELSE FindViolationsFrom(event_rates, i + 1,
             IF event_rates[i + 2] > event_rates[i + 1]
             THEN Append(acc, <<i, i + 1, event_rates[i + 1], event_rates[i + 2],
                                event_rates[i + 2] - event_rates[i + 1]>>)
             ELSE acc)

FindViolations(event_rates) ==
    FindViolationsFrom(event_rates, 0, <<>>)

\* a fraction num / den, den > 0
Frac(n, d) ==
    [num |-> n, den |-> d]

NoFrac ==
    [num |-> 0, den |-> 0]

\* calculate_rankfit_v without the clamp at 0
calculate_rankfit_v_unclamped(event_rates, violations) ==
    IF Len(event_rates) < 2 THEN Frac(1, 1)
    ELSE LET violation_magnitudes == [k \in 1..Len(violations) |-> violations[k][5]]
             rates == {event_rates[k] : k \in 1..Len(event_rates)}
             total_range == MaxOf(rates) - MinOf(rates)
         IN  IF total_range = 0 THEN Frac(1, 1)
             ELSE Frac(total_range - SumSeq(violation_magnitudes), total_range)

calculate_rankfit_v(event_rates, violations) ==
    IF Len(event_rates) < 2 THEN Frac(1, 1)
    ELSE LET violation_magnitudes == [k \in 1..Len(violations) |-> violations[k][5]]
             rates == {event_rates[k] : k \in 1..Len(event_rates)}
             total_range == MaxOf(rates) - MinOf(rates)
         IN  IF total_range = 0 THEN Frac(1, 1)
             ELSE IF total_range - SumSeq(violation_magnitudes) < 0 THEN Frac(0, 1)
             ELSE Frac(total_range - SumSeq(violation_magnitudes), total_range)

\* a value (tnum / sqrt(tden2) + add) / div, or NaN, or None
TVal(k, n, d2, a, dv) ==
    [kind |-> k, tnum |-> n, tden2 |-> d2, add |-> a, div |-> dv]

NoT ==
    TVal("none", 0, 1, 0, 1)

\* scipy.stats.kendalltau(x, y): tau-b, NaN when one argument is constant
kendalltau(x, y) ==
    LET size == Len(x)
        pairs == {p \in (1..size) \X (1..size) : p[1] < p[2]}
        tot == (size * (size - 1)) \div 2
        xtie == Cardinality({p \in pairs : x[p[1]] = x[p[2]]})
        ytie == Cardinality({p \in pairs : y[p[1]] = y[p[2]]})
        ntie == Cardinality({p \in pairs : x[p[1]] = x[p[2]] /\ y[p[1]] = y[p[2]]})
        dis == Cardinality({p \in pairs :
                   (x[p[1]] - x[p[2]]) * (y[p[1]] - y[p[2]]) < 0})
        con_minus_dis == tot - xtie - ytie + ntie - 2 * dis
        den2 == (tot - xtie) * (tot - ytie)
    IN  IF size = 0 THEN TVal("nan", 0, 1, 0, 1)
        ELSE IF xtie = tot \/ ytie = tot THEN TVal("nan", 0, 1, 0, 1)
        ELSE IF con_minus_dis * con_minus_dis > den2
             THEN TVal("num", IF con_minus_dis > 0 THEN 1 ELSE -1, 1, 0, 1)
        ELSE TVal("num", con_minus_dis, den2, 0, 1)

\* (tau + 1) / 2; NaN stays NaN
HalfShift(tau) ==
    IF tau.kind = "num" THEN TVal("num", tau.tnum, tau.tden2, tau.add + 1, tau.div * 2)
    ELSE tau

\* calculate_rankfit_t with the bin indices not negated
calculate_rankfit_t_not_negated(event_rates) ==
    IF Len(event_rates) < 2 THEN TVal("num", 0, 1, 1, 1)
    ELSE LET bin_indices == [k \in 1..Len(event_rates) |-> (k - 1)]
             tau == kendalltau(bin_indices, event_rates)
             rankfit_t == HalfShift(tau)
         IN  IF tau.kind # "none" THEN rankfit_t ELSE TVal("num", 0, 1, 1, 2)

calculate_rankfit_t(event_rates) ==
    IF Len(event_rates) < 2 THEN TVal("num", 0, 1, 1, 1)
    ELSE LET bin_indices == [k \in 1..Len(event_rates) |-> -(k - 1)]
             tau == kendalltau(bin_indices, event_rates)
             rankfit_t == HalfShift(tau)
         IN  IF tau.kind # "none" THEN rankfit_t ELSE TVal("num", 0, 1, 1, 2)

\* ------------------------------------------------- reading the two scores
FracEq(f, n, d) ==
    f.den > 0 /\ f.num * d = n * f.den

FracInUnit(f) ==
    f.den > 0 /\ 0 <= f.num /\ f.num <= f.den

\* a / sqrt(d) <= m, for d > 0
LeqSqrt(a, m, d) ==
    IF a <= 0 /\ m >= 0 THEN TRUE
    ELSE IF a > 0 /\ m <= 0 THEN FALSE
    ELSE IF a > 0 THEN a * a <= m * m * d
    ELSE a * a >= m * m * d

\* the value of t is n / d, for d > 0
TEq(t, n, d) ==
    /\ t.kind = "num"
    /\ LeqSqrt(t.tnum * d, n * t.div - t.add * d, t.tden2)
    /\ LeqSqrt(-t.tnum * d, -(n * t.div - t.add * d), t.tden2)

TInUnit(t) ==
    /\ t.kind = "num"
    /\ LeqSqrt(t.tnum, t.div - t.add, t.tden2)
    /\ LeqSqrt(-t.tnum, t.add, t.tden2)

\* ------------------------------------------------------ calculate_metrics
VARIABLES n_bins, y_scores, y_true, binning, df_bin, bin_stats, event_rates,
          violations, rankfit_v, rankfit_t, error, pc

vars ==
    <<n_bins, y_scores, y_true, binning, df_bin, bin_stats, event_rates,
      violations, rankfit_v, rankfit_t, error, pc>>

\* pd.DataFrame({'score': ..., 'actual': ...}) rejects arrays of unequal length
DataFrameValueError(scores, actual) ==
    Len(scores) # Len(actual)

\* the bin column left as pd.qcut labelled it (ascending score order)
ReverseBinsOmitted(col) ==
    col

\* df['bin'].max() - df['bin']; max skips NaN, NaN stays NaN
ReverseBins(col) ==
    LET labels == {col[e] : e \in 1..Len(col)} \ {NaN}
    IN  [e \in 1..Len(col) |->
            IF col[e] = NaN THEN NaN ELSE MaxOf(labels) - col[e]]

\* the mean of a column over the rows in G, in units of 1/Unit
Mean(col, G) ==
    (SumSeq([k \in 1..Len(Ascending(G)) |-> col[Ascending(G)[k]]]) * Unit)
        \div Cardinality(G)

\* df.groupby('bin').agg(mean, count, mean).reset_index(): one row per label
\* that occurs, ascending; rows whose label is NaN belong to no group
GroupBy(col, scores, actual) ==
    LET keys == Ascending({col[e] : e \in 1..Len(col)} \ {NaN})
        members(b) == {e \in 1..Len(col) : col[e] = b}
    IN  [r \in 1..Len(keys) |->
            [bin |-> keys[r],
             actual_mean |-> Mean(actual, members(keys[r])),
             actual_count |-> Cardinality(members(keys[r])),
             score_mean |-> Mean(scores, members(keys[r]))]]

Raise(exc) ==
    /\ error' = exc
    /\ pc' = "raised"
    /\ binning' = "none"
    /\ df_bin' = <<>>
    /\ bin_stats' = <<>>
    /\ event_rates' = <<>>
    /\ violations' = <<>>
    /\ rankfit_v' = NoFrac
    /\ rankfit_t' = NoT

Return(method, col, scores, actual) ==
    LET stats == GroupBy(ReverseBins(col), scores, actual)
        rates == [r \in 1..Len(stats) |-> stats[r].actual_mean]
    IN  /\ error' = "none"
        /\ pc' = "returned"
        /\ binning' = method
        /\ df_bin' = ReverseBins(col)
        /\ bin_stats' = stats
        /\ event_rates' = rates
        /\ violations' = FindViolations(rates)
        /\ rankfit_v' = calculate_rankfit_v(rates, FindViolations(rates))
        /\ rankfit_t' = calculate_rankfit_t(rates)

ScoreArrays ==
    SeqsFromTo(0..MaxScore, 1, MaxLen)

\* labels: 0 and 1 are the binary labels, 2 is a label that is not binary
Outcomes ==
    {0, 1, 2}

OutcomeArrays ==
    SeqsFromTo(Outcomes, 1, MaxLen)

\* One call per behaviour: the call reads only n_bins and its arguments and
\* writes no attribute of the analyzer, so every call is a first call.
calculate_metrics ==
    /\ pc = "new"
    /\ \E scores \in ScoreArrays, actual \in OutcomeArrays :
          /\ y_scores' = scores
          /\ y_true' = actual
          /\ IF DataFrameValueError(scores, actual) THEN Raise("ValueError")
             ELSE IF QcutValueError(n_bins)
                  THEN IF CutValueError(n_bins) THEN Raise("ValueError")
                       ELSE Return("cut", Cut(scores, n_bins), scores, actual)
             ELSE IF QcutIndexError(n_bins) THEN Raise("IndexError")
             ELSE Return("qcut", Qcut(scores, n_bins), scores, actual)
    /\ UNCHANGED n_bins

\* RankFitAnalyzer(n_bins)
Init ==
    /\ n_bins \in (-MaxNegBins)..MaxBins
    /\ y_scores = <<>>
    /\ y_true = <<>>
    /\ binning = "none"
    /\ df_bin = <<>>
    /\ bin_stats = <<>>
    /\ event_rates = <<>>
    /\ violations = <<>>
    /\ rankfit_v = NoFrac
    /\ rankfit_t = NoT
    /\ error = "none"
    /\ pc = "new"

Next ==
    calculate_metrics

Spec ==
    Init /\ [][Next]_vars

\* ------------------------------------- the scorer on an event-rate array
RateArrays ==
    SeqsFromTo(0..RateDen, 0, MaxK)

InitScorer ==
    /\ n_bins = 10
    /\ y_scores = <<>>
    /\ y_true = <<>>
    /\ binning = "none"
    /\ df_bin = <<>>
    /\ bin_stats = <<>>
    /\ event_rates \in RateArrays
    /\ violations = <<>>
    /\ rankfit_v = NoFrac
    /\ rankfit_t = NoT
    /\ error = "none"
    /\ pc = "scan"

find_violations ==
    /\ pc = "scan"
    /\ violations' = FindViolations(event_rates)
    /\ pc' = "v"
    /\ UNCHANGED <<n_bins, y_scores, y_true, binning, df_bin, bin_stats,
                   event_rates, rankfit_v, rankfit_t, error>>

call_rankfit_v ==
    /\ pc = "v"
    /\ rankfit_v' = calculate_rankfit_v(event_rates, violations)
    /\ pc' = "t"
    /\ UNCHANGED <<n_bins, y_scores, y_true, binning, df_bin, bin_stats,
                   event_rates, violations, rankfit_t, error>>

call_rankfit_t ==
    /\ pc = "t"
    /\ rankfit_t' = calculate_rankfit_t(event_rates)
    /\ pc' = "scored"
    /\ UNCHANGED <<n_bins, y_scores, y_true, binning, df_bin, bin_stats,
                   event_rates, violations, rankfit_v, error>>

NextScorer ==
    \/ find_violations
    \/ call_rankfit_v
    \/ call_rankfit_t

SpecScorer ==
    InitScorer /\ [][NextScorer]_vars

\* ----------------------------------------------------------- properties
Called ==
    pc \in {"returned", "raised"}

\* the preconditions of the analysis
ValidInput ==
    /\ Len(y_scores) = Len(y_true)
    /\ Len(y_scores) >= 1
    /\ \A e \in 1..Len(y_true) : y_true[e] \in {0, 1}
    /\ n_bins >= 1

Scanned ==
    pc \in {"v", "t", "scored"}

Rising(rates) ==
    {i \in 0..(Len(rates) - 2) : rates[i + 2] > rates[i + 1]}

ConstantRates ==
    /\ Len(event_rates) >= 2
    /\ \A k \in 1..Len(event_rates) : event_rates[k] = event_rates[1]

StrictlyDecreasing ==
    /\ Len(event_rates) >= 2
    /\ \A k \in 1..(Len(event_rates) - 1) : event_rates[k] > event_rates[k + 1]

\* C1: for every valid input the call returns rankfit_v and rankfit_t in
\* [0,1]; neither is outside the interval or NaN.
C1_ScoresInUnitInterval ==
    (Called /\ ValidInput) =>
        /\ pc = "returned"
        /\ FracInUnit(rankfit_v)
        /\ TInUnit(rankfit_t)

\* C2: every call with invalid input (different lengths, n_bins < 1, an
\* outcome outside {0,1}) fails with an error and returns no result.
C2_InvalidInputFails ==
    (Called /\ ~ValidInput) => pc = "raised"

\* C3: for every valid input every example is in exactly one segment: the
\* actual_count column sums to the input length and every count is >= 1.
C3_SegmentsPartitionInput ==
    (Called /\ ValidInput) =>
        /\ pc = "returned"
        /\ SumSeq([r \in 1..Len(bin_stats) |-> bin_stats[r].actual_count])
               = Len(y_scores)
        /\ \A r \in 1..Len(bin_stats) : bin_stats[r].actual_count >= 1

\* quantile binning gives no valid split: it assigns no example to a bin
NoQuantileSplit ==
    \A e \in 1..Len(y_scores) : Qcut(y_scores, n_bins)[e] = NaN

\* C4: for every valid input the call returns and never raises; when quantile
\* binning gives no valid split, the segments are those of equal-width binning
\* of [min,max] into n_bins intervals, lowest boundary inclusive.
C4_FallbackRecovers ==
    (Called /\ ValidInput) =>
        /\ pc = "returned"
        /\ NoQuantileSplit =>
              /\ binning = "cut"
              /\ df_bin = ReverseBins(Cut(y_scores, n_bins))

\* C5: if two or more segments all have the same event rate, rankfit_v is 1
\* and rankfit_t is the neutral value 0.5.
C5_ConstantRatesNeutral ==
    (pc = "scored" /\ ConstantRates) =>
        /\ FracEq(rankfit_v, 1, 1)
        /\ TEq(rankfit_t, 1, 2)

\* C6: the violations list has exactly one entry (i, i+1, rate[i], rate[i+1],
\* severity) for each i with rate[i+1] > rate[i] and no other entry, in
\* ascending order of i, with severity = rate[i+1] - rate[i] > 0.
C6_ViolationsExact ==
    Scanned =>
        /\ Len(violations) = Cardinality(Rising(event_rates))
        /\ \A k \in 1..Len(violations) :
              /\ violations[k][1] \in Rising(event_rates)
              /\ violations[k][2] = violations[k][1] + 1
              /\ violations[k][3] = event_rates[violations[k][1] + 1]
              /\ violations[k][4] = event_rates[violations[k][1] + 2]
              /\ violations[k][5] = violations[k][4] - violations[k][3]
              /\ violations[k][5] > 0
        /\ \A k \in 1..(Len(violations) - 1) :
              violations[k][1] < violations[k + 1][1]

C6_Witness ==
    /\ Scanned
    /\ Len(violations) >= 2
    /\ \E k \in 1..(Len(event_rates) - 1) : event_rates[k] = event_rates[k + 1]

\* the reference value of rankfit_v, as the pair <<numerator, denominator>>
ReferenceV(rates) ==
    LET S == {rates[k] : k \in 1..Len(rates)}
        R == MaxOf(S) - MinOf(S)
        rising == Ascending(Rising(rates))
        total == SumSeq([k \in 1..Len(rising) |->
                            rates[rising[k] + 2] - rates[rising[k] + 1]])
    IN  IF Len(rates) < 2 THEN <<1, 1>>
        ELSE IF R = 0 THEN <<1, 1>>
        ELSE IF total >= R THEN <<0, 1>>
        ELSE <<R - total, R>>

\* C7: calculate_rankfit_v is 1 for fewer than 2 segments, 1 for a zero range,
\* otherwise max(0, 1 - (sum of severities) / (max - min)); the rates
\* [0.2, 0.5, 0.3, 0.1] give the one violation (0,1,0.2,0.5,0.3) and 0.25.
C7_RankfitVReference ==
    (pc \in {"t", "scored"}) =>
        /\ FracEq(rankfit_v, ReferenceV(event_rates)[1], ReferenceV(event_rates)[2])
        /\ (event_rates = <<2, 5, 3, 1>> /\ RateDen = 10) =>
              /\ violations = << <<0, 1, 2, 5, 3>> >>
              /\ FracEq(rankfit_v, 1, 4)

C7_Witness ==
    /\ pc = "scored"
    /\ event_rates = <<2, 5, 3, 1>>
    /\ FracEq(rankfit_v, 1, 4)

\* C8: if the event rates of two or more segments are strictly decreasing,
\* there is no violation, rankfit_v is 1 and rankfit_t is 1.
C8_StrictlyDecreasingPerfect ==
    (pc = "scored" /\ StrictlyDecreasing) =>
        /\ violations = <<>>
        /\ FracEq(rankfit_v, 1, 1)
        /\ TEq(rankfit_t, 1, 1)

C8_Witness ==
    /\ pc = "scored"
    /\ StrictlyDecreasing
    /\ Len(event_rates) >= 3
    /\ TEq(rankfit_t, 1, 1)

\* C9: in every result the 'bin' column of bin_stats is 0, 1, ..., k-1 in
\* ascending order, so a violation (i, i+1) names the segment indices of the
\* rows compared.
C9_BinColumnContiguous ==
    (Called /\ ValidInput /\ pc = "returned") =>
        \A r \in 1..Len(bin_stats) : bin_stats[r].bin = r - 1

Segment(r) ==
    {e \in 1..Len(df_bin) : df_bin[e] = bin_stats[r].bin}

\* C10: in every segmentation the lowest score of segment 0 is >= the highest
\* score of every other segment, and a raw bin b of k bins labelled in
\* ascending score order becomes segment (k-1) - b.
C10_Reorientation ==
    (pc = "returned") =>
        /\ \A r \in 2..Len(bin_stats) :
              \A a \in Segment(1), b \in Segment(r) : y_scores[a] >= y_scores[b]
        /\ \A e \in 1..Len(df_bin) :
              Qcut(y_scores, n_bins)[e] # NaN =>
                  df_bin[e] = (Len(QcutBins(y_scores, n_bins)) - 2)
                                  - Qcut(y_scores, n_bins)[e]

C10_Witness ==
    /\ pc = "returned"
    /\ Len(bin_stats) >= 3
    /\ \E r \in 2..Len(bin_stats) : bin_stats[r].actual_count >= 1
    /\ df_bin[1] = 0
====
